---- MODULE Spec2Model ----
(***************************************************************************)
(* stepstate: a stepping engine for finite state machines (src/steps.js).  *)
(*                                                                         *)
(* A stateful record is a JavaScript object; it is modelled as a TLA+      *)
(* function from field names to values, so that an absent field is a name  *)
(* outside the record's DOMAIN.  A call of the async function step is a    *)
(* frame of the variable calls: it runs synchronously up to the invocation *)
(* of the state handler, is suspended while the handler (or the catch      *)
(* handler) is pending, and runs lines 28-34 when that handler settles.    *)
(***************************************************************************)
EXTENDS Integers, Sequences, FiniteSets, TLC

VARIABLES
  handlers,   \* the handler table closed over by step: key -> "user" | "default"
  rec,        \* the heap of stateful records: record id -> record
  clock,      \* the value Date.now() returns
  calls       \* the calls of step: call id -> frame

vars == <<handlers, rec, clock, calls>>

----------------------------------------------------------------------------
(* Bounds *)

MaxHistory == 2     \* steps are issued while history is shorter than this
MaxClock == 1       \* the clock advances up to this value

----------------------------------------------------------------------------
(* Names *)

\* The state names the caller registers a handler for.
Keys == {"Start", "End"}

\* The reserved key of the error handler.
CatchKey == "catch"

\* Every string a record's state field takes in the model: the registered
\* keys, the reserved key and a name with no handler.
StateNames == Keys \cup {CatchKey, "Bogus"}

\* The absent (falsy) first argument of step.
NoRecord == 0

----------------------------------------------------------------------------
(* JavaScript values: transition results, thrown values, settled promises. *)

Undefined == [t |-> "undefined", s |-> "", n |-> 0]
Str(x) == [t |-> "string", s |-> x, n |-> 0]
Num(k) == [t |-> "number", s |-> "", n |-> k]
\* A reference to an object: record r of the heap, or (n = NoRecord) an
\* object that is no stateful record.
Ref(r) == [t |-> "object", s |-> "", n |-> r]
\* An Error object with message m.
Err(m) == [t |-> "error", s |-> m, n |-> 0]

\* Mutant of Truthy: if(transition !== undefined).
TruthyIfDefined(v) == v.t # "undefined"

\* if(transition): JavaScript truthiness.
Truthy(v) ==
  CASE v.t = "string" -> v.s # ""
    [] v.t = "number" -> v.n # 0
    [] v.t \in {"object", "error"} -> TRUE
    [] OTHER -> FALSE

\* assert(cond, message) failing: an AssertionError carrying the message.
AssertionError(m) == Err(m)

MsgNoState == "Handling state requires a state object"
MsgInvalid == "Invalid state trasition"
MsgBadReturn == "State handlers must return either a string state transition or nothing"

\* The errors a user handler throws.
UserErrors == {Err("e1"), Err("e2")}

----------------------------------------------------------------------------
(* Objects: reading and writing fields. *)

\* o.f = v (the field is created when absent).
Assign(o, f, v) == (f :> v) @@ o

\* state.history, for a reader that treats an absent history as empty.
HistoryOf(state) == IF "history" \in DOMAIN state THEN state.history ELSE <<>>

\* {state: state.state, updated: state.updated}; an undefined updated is
\* an absent field of the snapshot.
Snapshot(state) ==
  IF "updated" \in DOMAIN state
    THEN [state |-> state.state, updated |-> state.updated]
    ELSE [state |-> state.state]

----------------------------------------------------------------------------
(* module.exports.State: the constructor of a default stateful record. *)

\* Mutant of State: the spread ...state placed first, so that the defaults
\* win.
StateDefaultsWin(o, now) ==
  [state |-> "Start", done |-> FALSE, history |-> <<>>, updated |-> now] @@ o

\* The defaults, overlaid with the caller's fields o (the spread ...state
\* comes last, so the caller's fields win).
State(o, now) ==
  o @@ [state |-> "Start", done |-> FALSE, history |-> <<>>, updated |-> now]

----------------------------------------------------------------------------
(* module.exports: the constructor of step. *)

\* if(handlers.catch == null) handlers.catch = e => { throw e }
Steps(h) ==
  IF CatchKey \notin DOMAIN h THEN (CatchKey :> "default") @@ h ELSE h

\* handlers[state.state], as assert reads it: is there a function under k.
HasHandler(h, k) == k \in DOMAIN h

\* Mutant of isDone: the done check placed after the validity assert, so
\* that it is reached only by a state that has a handler.
isDoneAfterValidation(state) ==
  "done" \in DOMAIN state /\ state.done /\ HasHandler(handlers, state.state)

\* if(state.done)
isDone(state) == "done" \in DOMAIN state /\ state.done

\* Mutant of archive: history.push in place of history.unshift.
archivePush(state) ==
  LET s1 == IF "history" \notin DOMAIN state
              THEN Assign(state, "history", <<>>)
              ELSE state
  IN [s1 EXCEPT !.history = Append(@, Snapshot(s1))]

\* Mutant of archive: no snapshot is added when the newest snapshot
\* already names the record's state.
archiveOnce(state) ==
  LET s1 == IF "history" \notin DOMAIN state
              THEN Assign(state, "history", <<>>)
              ELSE state
  IN IF s1.history # <<>> /\ s1.history[1].state = s1.state
       THEN s1
       ELSE [s1 EXCEPT !.history = <<Snapshot(s1)>> \o @]

\* function archive(state)
archive(state) ==
  LET s1 == IF "history" \notin DOMAIN state
              THEN Assign(state, "history", <<>>)
              ELSE state
  IN [s1 EXCEPT !.history = <<Snapshot(s1)>> \o @]

\* Mutant of IsSameRecord: the identity check dropped.
IsSameRecordNever(transition, a) == FALSE

\* transition === state
IsSameRecord(transition, a) == transition = Ref(a)

\* Mutant of IsString: the type assert dropped.
IsStringUnchecked(v) == TRUE

\* typeof transition === 'string'
IsString(v) == v.t = "string"

\* Mutant of applyTransition: the new state is assigned only when it names
\* a handler.
applyTransitionValidated(a, state, transition) ==
  IF IsSameRecord(transition, a)
    THEN [pc |-> "resolved", state |-> state, out |-> Ref(a)]
  ELSE IF Truthy(transition)
    THEN IF IsString(transition)
           THEN [pc |-> "resolved",
                 state |-> IF HasHandler(handlers, transition.s)
                             THEN Assign(state, "state", transition.s)
                             ELSE state,
                 out |-> Ref(a)]
           ELSE [pc |-> "rejected", state |-> state,
                 out |-> AssertionError(MsgBadReturn)]
  ELSE [pc |-> "resolved", state |-> state, out |-> Ref(a)]

\* Mutant of applyTransition: a record that moves to a state without a
\* handler is marked done by the engine.
applyTransitionMarksDone(a, state, transition) ==
  IF IsSameRecord(transition, a)
    THEN [pc |-> "resolved", state |-> state, out |-> Ref(a)]
  ELSE IF Truthy(transition)
    THEN IF IsString(transition)
           THEN [pc |-> "resolved",
                 state |-> IF HasHandler(handlers, transition.s)
                             THEN Assign(state, "state", transition.s)
                             ELSE Assign(Assign(state, "state", transition.s),
                                         "done", TRUE),
                 out |-> Ref(a)]
           ELSE [pc |-> "rejected", state |-> state,
                 out |-> AssertionError(MsgBadReturn)]
  ELSE [pc |-> "resolved", state |-> state, out |-> Ref(a)]

\* Mutant of applyTransition: the snapshot of the step is taken back when
\* the return type assert fails.
applyTransitionRollback(a, state, transition) ==
  IF IsSameRecord(transition, a)
    THEN [pc |-> "resolved", state |-> state, out |-> Ref(a)]
  ELSE IF Truthy(transition)
    THEN IF IsString(transition)
           THEN [pc |-> "resolved",
                 state |-> Assign(state, "state", transition.s),
                 out |-> Ref(a)]
           ELSE [pc |-> "rejected",
                 state |-> [state EXCEPT !.history = Tail(@)],
                 out |-> AssertionError(MsgBadReturn)]
  ELSE [pc |-> "resolved", state |-> state, out |-> Ref(a)]

\* Lines 28-34 of step, run when the awaited handler has returned
\* transition: the record as step leaves it and the way the call settles.
applyTransition(a, state, transition) ==
  IF IsSameRecord(transition, a)
    THEN [pc |-> "resolved", state |-> state, out |-> Ref(a)]
  ELSE IF Truthy(transition)
    THEN IF IsString(transition)
           THEN [pc |-> "resolved",
                 state |-> Assign(state, "state", transition.s),
                 out |-> Ref(a)]
           ELSE [pc |-> "rejected", state |-> state,
                 out |-> AssertionError(MsgBadReturn)]
  ELSE [pc |-> "resolved", state |-> state, out |-> Ref(a)]

----------------------------------------------------------------------------
(* Calls of step.  A frame holds the call's position pc, its argument      *)
(* state (a record id), its locals transition and e, the value out its     *)
(* promise settled with, and what an observer of the call has seen: pre,   *)
(* the record as it was when step was called; now, the time step read;     *)
(* inv, the functions of the handler table the call invoked, in order,     *)
(* each with its role and first argument; hset, the last value a handler   *)
(* of this call assigned to record.state (empty if none did); thrown, the  *)
(* value the state handler threw (empty if it did not); returned, whether  *)
(* the awaited handler returned, so that lines 28-34 ran.                  *)
(***************************************************************************)

Idle == [pc |-> "idle"]

Records == DOMAIN rec
Calls == DOMAIN calls

\* The entry of inv for the call of handlers[k] in role with first argument arg.
Invocation(k, role, arg) == [fn |-> k, role |-> role, arg |-> arg]

\* The function of the handler table that a pending call is awaiting.
Running(f) == handlers[f.inv[Len(f.inv)].fn]

Pending(c) == calls[c].pc \in {"handler", "catch"}

\* The caller awaits a step on a record before it issues the next one on
\* that record (state = await step(state)).
Awaited(a) ==
  \A c \in Calls : calls[c].pc \notin {"idle", "awaited"} => calls[c].state # a

\* The values a user-supplied handler returns: nothing, falsy values, a
\* state name, the record it was passed, another record or object, a number.
ReturnValues ==
  {Undefined, Num(0), Num(1), Ref(NoRecord)}
    \cup {Str(s) : s \in StateNames \cup {""}}
    \cup {Ref(r) : r \in Records}

\* The handler functions of the README's and the test's handler tables, by
\* what they do: the value they return, whether they first set
\* data.done = true, whether they throw instead of returning.
Scripts ==
  [retMiddle |-> [ret |-> Str("Middle"), done |-> FALSE, throws |-> FALSE],
   retEnd    |-> [ret |-> Str("End"), done |-> FALSE, throws |-> FALSE],
   retError  |-> [ret |-> Str("Error"), done |-> FALSE, throws |-> FALSE],
   retNext     |-> [ret |-> Str("Next"), done |-> FALSE, throws |-> FALSE],
   retFinalize |-> [ret |-> Str("Finalize"), done |-> FALSE, throws |-> FALSE],
   retDone     |-> [ret |-> Str("Done"), done |-> FALSE, throws |-> FALSE],
   setsDoneRetSuccess |-> [ret |-> Str("Success"), done |-> TRUE, throws |-> FALSE],
   setsDone  |-> [ret |-> Undefined, done |-> TRUE, throws |-> FALSE],
   throws    |-> [ret |-> Undefined, done |-> FALSE, throws |-> TRUE]]

\* The values the function awaited by frame f may return: a function the
\* model leaves open ("user") anything, one of Scripts its value, once it
\* has done its assignment; e => { throw e } never returns.
Returnable(f) ==
  LET b == Running(f)
  IN IF b = "user" THEN ReturnValues
     ELSE IF b \in DOMAIN Scripts
       THEN IF /\ ~Scripts[b].throws
               /\ Scripts[b].done => ("done" \in DOMAIN rec[f.state] /\ rec[f.state].done)
              THEN {Scripts[b].ret}
              ELSE {}
     ELSE {}

\* The values the function awaited by frame f may assign to record.done.
DoneWritable(f) ==
  LET b == Running(f)
  IN IF b = "user" THEN BOOLEAN
     ELSE IF b \in DOMAIN Scripts /\ Scripts[b].done THEN {TRUE}
     ELSE {}

\* The bound of the model on a call: one that will archive is issued only
\* while the record's history is shorter than MaxHistory.
WithinBound(a) ==
  IF a = NoRecord THEN TRUE
  ELSE IF isDone(rec[a]) THEN TRUE
  ELSE IF ~HasHandler(handlers, rec[a].state) THEN TRUE
  ELSE Len(HistoryOf(rec[a])) < MaxHistory

\* step(state, ...args), lines 17-24: the synchronous part, up to the
\* invocation of the state handler.
step(c, a) ==
  /\ calls[c].pc = "idle"
  /\ clock' = clock
  /\ handlers' = handlers
  /\ IF a = NoRecord
       THEN /\ calls' = [calls EXCEPT ![c] =
                 [pc |-> "rejected", state |-> a, inv |-> <<>>,
                  out |-> AssertionError(MsgNoState)]]
            /\ rec' = rec
     ELSE IF isDone(rec[a])
       THEN /\ calls' = [calls EXCEPT ![c] =
                 [pc |-> "resolved", state |-> a, pre |-> rec[a],
                  inv |-> <<>>, out |-> Ref(a)]]
            /\ rec' = rec
     ELSE IF ~HasHandler(handlers, rec[a].state)
       THEN /\ calls' = [calls EXCEPT ![c] =
                 [pc |-> "rejected", state |-> a, pre |-> rec[a],
                  inv |-> <<>>, out |-> AssertionError(MsgInvalid)]]
            /\ rec' = rec
     ELSE /\ rec' = [rec EXCEPT ![a] = Assign(archive(rec[a]), "updated", clock)]
          /\ calls' = [calls EXCEPT ![c] =
               [pc |-> "handler", state |-> a, pre |-> rec[a], now |-> clock,
                inv |-> <<Invocation(rec[a].state, "state", Ref(a))>>,
                hset |-> <<>>, thrown |-> <<>>, returned |-> FALSE,
                e |-> Undefined, transition |-> Undefined, out |-> Undefined]]

\* A pending user-supplied handler assigns record.state = s.
HandlerSetsState(c, s) ==
  /\ Pending(c)
  /\ Running(calls[c]) = "user"
  /\ rec' = [rec EXCEPT ![calls[c].state] = Assign(@, "state", s)]
  /\ calls' = [calls EXCEPT ![c].hset = <<s>>]
  /\ UNCHANGED <<handlers, clock>>

\* A pending user-supplied handler assigns record.done = d.
HandlerSetsDone(c, d) ==
  /\ Pending(c)
  /\ d \in DoneWritable(calls[c])
  /\ rec' = [rec EXCEPT ![calls[c].state] = Assign(@, "done", d)]
  /\ UNCHANGED <<handlers, clock, calls>>

\* Mutant of Settle: the stepper keeps the record in a variable shared by
\* all its calls in place of the parameter state, so that lines 28-34 run
\* on the record of the latest pending call.
SettleShared(c, v) ==
  LET P == {d \in Calls : Pending(d)}
      a == calls[CHOOSE d \in P : \A x \in P : x <= d].state
      r == applyTransition(a, rec[a], v)
  IN /\ rec' = [rec EXCEPT ![a] = r.state]
     /\ calls' = [calls EXCEPT ![c].pc = r.pc, ![c].out = r.out,
                                ![c].transition = v, ![c].returned = TRUE]

\* Lines 28-34 for call c, whose awaited handler returned v.
Settle(c, v) ==
  LET a == calls[c].state
      r == applyTransition(a, rec[a], v)
  IN /\ rec' = [rec EXCEPT ![a] = r.state]
     /\ calls' = [calls EXCEPT ![c].pc = r.pc, ![c].out = r.out,
                                ![c].transition = v, ![c].returned = TRUE]

\* Line 24: the awaited state handler returns v.
HandlerReturns(c, v) ==
  /\ calls[c].pc = "handler"
  /\ v \in Returnable(calls[c])
  /\ Settle(c, v)
  /\ UNCHANGED <<handlers, clock>>

\* Mutant of Throwable: the default catch handler throws a new error in
\* place of the one it received.
ThrowableWrapped(f) ==
  LET b == Running(f)
  IN IF b = "user" THEN UserErrors
     ELSE IF b \in DOMAIN Scripts
       THEN IF Scripts[b].throws THEN {Err("error")} ELSE {}
     ELSE {Err("unhandled")}

\* What the function awaited by frame f may throw: a function the model
\* leaves open any error, one of Scripts new Error('error') if it throws,
\* the default e => { throw e } its first argument.
Throwable(f) ==
  LET b == Running(f)
  IN IF b = "user" THEN UserErrors
     ELSE IF b \in DOMAIN Scripts
       THEN IF Scripts[b].throws THEN {Err("error")} ELSE {}
     ELSE {f.inv[Len(f.inv)].arg}

\* Mutant of catchBlock: the failed state handler is invoked once more
\* before the error is handed to the catch handler.
catchBlockRetry(f, err) ==
  [f EXCEPT !.pc = "catch", !.e = err,
            !.inv = @ \o <<Invocation(f.pre.state, "state", Ref(f.state)),
                           Invocation(CatchKey, "catch", err)>>]

\* Mutant of catchBlock: no try statement, the error leaves step.
catchBlockRethrow(f, err) == [f EXCEPT !.pc = "rejected", !.out = err]

\* Lines 25-26, catch(e){ transition = await handlers.catch(e,state,...args) }:
\* the frame f of a call after its try block threw err.
catchBlock(f, err) ==
  [f EXCEPT !.pc = "catch", !.e = err,
            !.inv = Append(@, Invocation(CatchKey, "catch", err))]

\* Line 24: the state handler throws (or rejects with) err, which the
\* try statement catches.
HandlerThrows(c) ==
  /\ calls[c].pc = "handler"
  /\ \E err \in Throwable(calls[c]) :
       calls' = [calls EXCEPT ![c] = catchBlock([@ EXCEPT !.thrown = <<err>>], err)]
  /\ UNCHANGED <<handlers, rec, clock>>

\* Line 26: the awaited catch handler returns v.
CatchReturns(c, v) ==
  /\ calls[c].pc = "catch"
  /\ v \in Returnable(calls[c])
  /\ Settle(c, v)
  /\ UNCHANGED <<handlers, clock>>

\* Line 26: the catch handler throws err, which leaves step.
CatchThrows(c) ==
  /\ calls[c].pc = "catch"
  /\ \E err \in Throwable(calls[c]) :
       calls' = [calls EXCEPT ![c].pc = "rejected", ![c].out = err]
  /\ UNCHANGED <<handlers, rec, clock>>

\* The caller takes the settled promise of call c; the frame is free again.
Await(c) ==
  /\ calls[c].pc \in {"resolved", "rejected"}
  /\ calls' = [calls EXCEPT ![c] = Idle]
  /\ UNCHANGED <<handlers, rec, clock>>

\* Date.now() advances.
Tick ==
  /\ clock < MaxClock
  /\ clock' = clock + 1
  /\ UNCHANGED <<handlers, rec, calls>>

----------------------------------------------------------------------------
(* Initial states *)

\* The handler tables the caller passes to module.exports: with and
\* without a catch entry.
Tables ==
  {[k \in Keys |-> "user"], [k \in Keys \cup {CatchKey} |-> "user"]}

\* The records the caller starts from: built by State (no argument, a state
\* override, a finished record) or written by hand as {state: s}.
InitRecords ==
  {State(<<>>, 0)}
    \cup {State([state |-> s], 0) : s \in StateNames}
    \cup {State([state |-> s, done |-> TRUE], 0) : s \in StateNames}
    \cup {[state |-> s] : s \in StateNames}

\* One record, stepped by one call at a time.
Init ==
  /\ handlers \in {Steps(h) : h \in Tables}
  /\ rec \in [{1} -> InitRecords]
  /\ clock = 0
  /\ calls = [c \in {1} |-> Idle]

Next ==
  \/ \E c \in Calls, a \in Records \cup {NoRecord} :
       /\ WithinBound(a)
       /\ a # NoRecord => Awaited(a)
       /\ step(c, a)
  \/ \E c \in Calls, s \in StateNames : HandlerSetsState(c, s)
  \/ \E c \in Calls, d \in BOOLEAN : HandlerSetsDone(c, d)
  \/ \E c \in Calls, v \in ReturnValues : HandlerReturns(c, v)
  \/ \E c \in Calls : HandlerThrows(c)
  \/ \E c \in Calls, v \in ReturnValues : CatchReturns(c, v)
  \/ \E c \in Calls : CatchThrows(c)
  \/ \E c \in Calls : Await(c)
  \/ Tick

Spec == Init /\ [][Next]_vars

----------------------------------------------------------------------------
(* The driving loop of the README and of the test,                         *)
(*   while(!state.done){ state = await step(state) }                       *)
(* run on a fresh State() record with the handler table of the README's    *)
(* initialization example or with the test's.  Every iteration has a frame *)
(* of its own, kept once awaited, so that the whole run can be read.       *)
(***************************************************************************)

MaxRunCalls == 5    \* the frames at the loop's disposal

\* README, Initialization: Start returns 'Middle', Middle returns 'End',
\* End sets done.
TableReadme ==
  [Start |-> "retMiddle", Middle |-> "retEnd", End |-> "setsDone"]

\* The test: Start returns 'Middle', Middle returns 'Error', Error throws,
\* End sets done, catch returns 'End'.
TableTest ==
  [Start |-> "retMiddle", Middle |-> "retError", Error |-> "throws",
   End |-> "setsDone", catch |-> "retEnd"]

\* README, State Machine Handlers: Start returns 'Next', Next returns
\* 'Finalize', Finalize returns 'Done', Done sets done and returns 'Success'.
TableExample ==
  [Start |-> "retNext", Next |-> "retFinalize", Finalize |-> "retDone",
   Done |-> "setsDoneRetSuccess"]

\* The values the handlers of these tables return.
ScriptValues == {Scripts[b].ret : b \in DOMAIN Scripts}

\* One iteration of the loop starts: the record is not done, and every
\* earlier iteration's step has resolved and has been awaited.
run(c, a) ==
  /\ ~isDone(rec[a])
  /\ \A d \in Calls :
       d < c => (calls[d].pc = "awaited" /\ calls[d].settled = "resolved")
  /\ step(c, a)

\* state = await step(state): the loop takes the settled promise of call c;
\* the frame is kept.
AwaitLogged(c) ==
  /\ calls[c].pc \in {"resolved", "rejected"}
  /\ calls' = [calls EXCEPT ![c] =
       [settled |-> calls[c].pc] @@ [calls[c] EXCEPT !.pc = "awaited"]]
  /\ UNCHANGED <<handlers, rec, clock>>

InitRun ==
  /\ handlers \in {Steps(TableReadme), Steps(TableTest), Steps(TableExample)}
  /\ rec = [a \in {1} |-> State(<<>>, 0)]
  /\ clock = 0
  /\ calls = [c \in 1..MaxRunCalls |-> Idle]

\* The steps of the loop and of the handlers it awaits.
RunProgress ==
  \/ \E c \in Calls, a \in Records : run(c, a)
  \/ \E c \in Calls, d \in BOOLEAN : HandlerSetsDone(c, d)
  \/ \E c \in Calls, v \in ScriptValues : HandlerReturns(c, v)
  \/ \E c \in Calls : HandlerThrows(c)
  \/ \E c \in Calls, v \in ScriptValues : CatchReturns(c, v)
  \/ \E c \in Calls : AwaitLogged(c)

NextRun == RunProgress \/ Tick

\* The event loop runs every continuation that is ready, and the handlers
\* of the two tables settle.
SpecRun == InitRun /\ [][NextRun]_vars /\ WF_vars(RunProgress)

----------------------------------------------------------------------------
(* Calls of module.exports.State.  The heap starts empty; a call adds the  *)
(* record it returns, and its frame keeps the argument, the record's id    *)
(* and the time the call read.                                             *)
(***************************************************************************)

MaxMade == 2    \* the calls of State

\* The fields a caller passes, each with the value it passes for it.
CallerFields == {"state", "done", "history", "updated", "foo"}
CallerValue(f) ==
  CASE f = "state" -> "Other"
    [] f = "done" -> TRUE
    [] f = "history" -> <<[state |-> "Old", updated |-> 0]>>
    [] f = "updated" -> MaxClock + 5
    [] f = "foo" -> 1

\* The arguments of State: every object with some of these fields; the
\* empty one also stands for the omitted argument (state = {}).
CallerObjects == {[f \in D |-> CallerValue(f)] : D \in SUBSET CallerFields}

\* State(o), called at the current time.
CallState(c, o) ==
  LET n == Cardinality(DOMAIN rec) + 1
  IN /\ calls[c].pc = "idle"
     /\ \A d \in Calls : d < c => calls[d].pc # "idle"
     /\ rec' = (n :> State(o, clock)) @@ rec
     /\ calls' = [calls EXCEPT ![c] =
          [pc |-> "made", arg |-> o, state |-> n, now |-> clock]]
     /\ UNCHANGED <<handlers, clock>>

InitState ==
  /\ handlers = Steps([k \in Keys |-> "user"])
  /\ rec = <<>>
  /\ clock = 0
  /\ calls = [c \in 1..MaxMade |-> Idle]

NextState ==
  \/ \E c \in Calls, o \in CallerObjects : CallState(c, o)
  \/ Tick

SpecState == InitState /\ [][NextState]_vars

----------------------------------------------------------------------------
(* Records with a caller-defined field.  The caller keeps a field foo on   *)
(* the record; a handler may assign it, as it may assign state and done.   *)
(***************************************************************************)

\* The values of the caller's field.
ExtraValues == {0, 1}

\* A pending user-supplied handler assigns record.foo = x.
HandlerSetsExtra(c, x) ==
  /\ Pending(c)
  /\ Running(calls[c]) = "user"
  /\ rec' = [rec EXCEPT ![calls[c].state] = Assign(@, "foo", x)]
  /\ UNCHANGED <<handlers, clock, calls>>

\* The records the caller starts from: built by State with the extra field
\* (fresh, finished, in a state without a handler) or written by hand.
FieldRecords ==
  {State([foo |-> 0], 0),
   State([foo |-> 0, done |-> TRUE], 0),
   State([foo |-> 0, state |-> "Bogus"], 0),
   [state |-> "Start", foo |-> 0]}

InitFields ==
  /\ handlers \in {Steps(h) : h \in Tables}
  /\ rec \in [{1} -> FieldRecords]
  /\ clock = 0
  /\ calls = [c \in {1} |-> Idle]

NextFields ==
  \/ Next
  \/ \E c \in Calls, x \in ExtraValues : HandlerSetsExtra(c, x)

SpecFields == InitFields /\ [][NextFields]_vars

----------------------------------------------------------------------------
(* Two records stepped by interleaved calls of one stepper.  The caller    *)
(* runs the driving loop on each of two records at once; a step on one     *)
(* record may be issued, and may settle, while a step on the other is      *)
(* pending.  The handlers are those of the README's and the test's tables. *)
(***************************************************************************)

\* The records a loop starts from under table h: State() and
\* State({state: k}) for the states k of h.
PairRecords(h) ==
  {State(<<>>, 0)} \cup {State([state |-> k], 0) : k \in DOMAIN h \ {CatchKey}}

\* One iteration of a loop on record a starts in frame c: the record is not
\* done and the loop's previous step has been awaited.
pairStep(c, a) ==
  /\ Awaited(a)
  /\ ~isDone(rec[a])
  /\ HasHandler(handlers, rec[a].state)
  /\ step(c, a)

InitPair ==
  /\ handlers \in {Steps(TableReadme), Steps(TableTest), Steps(TableExample)}
  /\ rec \in [{1, 2} -> PairRecords(handlers)]
  /\ clock = 0
  /\ calls = [c \in {1, 2} |-> Idle]

NextPair ==
  \/ \E c \in Calls, a \in Records : pairStep(c, a)
  \/ \E c \in Calls, d \in BOOLEAN : HandlerSetsDone(c, d)
  \/ \E c \in Calls, v \in ScriptValues : HandlerReturns(c, v)
  \/ \E c \in Calls : HandlerThrows(c)
  \/ \E c \in Calls, v \in ScriptValues : CatchReturns(c, v)
  \/ \E c \in Calls : Await(c)
  \/ Tick

SpecPair == InitPair /\ [][NextPair]_vars

----------------------------------------------------------------------------
(* Retries.  The caller steps a record and, when the step rejects, issues  *)
(* the same step again.  Every try has a frame of its own, kept once       *)
(* awaited.  The handlers return or throw anything; they leave the         *)
(* assignment of state to the engine and do not finish the record.         *)
(***************************************************************************)

MaxTries == 2    \* the tries of the caller

\* The records the caller starts from: not done, in a state with a handler.
RetryRecords ==
  {State(<<>>, 0), State([state |-> "End"], 0), [state |-> "Start"]}

\* Try c on record a: the first one, or one after every earlier try
\* rejected.
retry(c, a) ==
  /\ \A d \in Calls :
       d < c => (calls[d].pc = "awaited" /\ calls[d].settled = "rejected")
  /\ step(c, a)

InitRetry ==
  /\ handlers \in {Steps(h) : h \in Tables}
  /\ rec \in [{1} -> RetryRecords]
  /\ clock = 0
  /\ calls = [c \in 1..MaxTries |-> Idle]

NextRetry ==
  \/ \E c \in Calls, a \in Records : retry(c, a)
  \/ \E c \in Calls, v \in ReturnValues : HandlerReturns(c, v)
  \/ \E c \in Calls : HandlerThrows(c)
  \/ \E c \in Calls, v \in ReturnValues : CatchReturns(c, v)
  \/ \E c \in Calls : CatchThrows(c)
  \/ \E c \in Calls : AwaitLogged(c)
  \/ Tick

SpecRetry == InitRetry /\ [][NextRetry]_vars

----------------------------------------------------------------------------
(* Overlapping calls on one record.  The caller issues a step on a record  *)
(* and, without awaiting it, a second step on the same record while the    *)
(* first one's handler is pending.  The two frames are kept.               *)
(***************************************************************************)

\* Call c on record a: the first call, or a call issued while every
\* earlier call on a has a handler pending.
overlap(c, a) ==
  /\ \A d \in Calls : d < c => (Pending(d) /\ calls[d].state = a)
  /\ step(c, a)

\* The records the caller starts from: not done, in a state with a handler.
OverlapRecords == {State(<<>>, 0), [state |-> "Start"]}

InitOverlap ==
  /\ handlers \in {Steps(h) : h \in Tables}
  /\ rec \in [{1} -> OverlapRecords]
  /\ clock = 0
  /\ calls = [c \in {1, 2} |-> Idle]

NextOverlap ==
  \/ \E c \in Calls, a \in Records : overlap(c, a)
  \/ \E c \in Calls, d \in BOOLEAN : HandlerSetsDone(c, d)
  \/ \E c \in Calls, v \in ReturnValues : HandlerReturns(c, v)
  \/ \E c \in Calls : HandlerThrows(c)
  \/ \E c \in Calls, v \in ReturnValues : CatchReturns(c, v)
  \/ \E c \in Calls : CatchThrows(c)
  \/ Tick

SpecOverlap == InitOverlap /\ [][NextOverlap]_vars

----------------------------------------------------------------------------
(* Vocabulary of the properties.  A property reads a call's frame once the *)
(* call has settled: no handler of the call is pending any more, and the   *)
(* caller has not yet issued another step on the record, so rec holds the  *)
(* record exactly as this step left it.                                    *)
(***************************************************************************)

\* The frames of the calls that were passed a record.
OnRecord == {c \in Calls : calls[c].pc # "idle" /\ calls[c].state # NoRecord}

\* The calls that went past the done check and the validity assert, and so
\* invoked a state handler.
Invoked == {c \in OnRecord : calls[c].inv # <<>>}

\* Those of them whose promise has settled.
Settled == {c \in Invoked : calls[c].pc \in {"resolved", "rejected"}}

\* The record call c was passed, as it is now.
Post(c) == rec[calls[c].state]

\* Field f is the same (absent, or present with the same value) in p and q.
SameField(p, q, f) ==
  /\ (f \in DOMAIN p) = (f \in DOMAIN q)
  /\ f \in DOMAIN p => p[f] = q[f]

\* The state names with a state handler: the keys of the table other than
\* the reserved catch entry.
StateKeys == DOMAIN handlers \ {CatchKey}

\* The record call c was passed had a true done field.
WasDone(c) == "done" \in DOMAIN calls[c].pre /\ calls[c].pre.done = TRUE

\* The falsy values a handler returns: nothing, 0, the empty string.
FalsyValues == {Undefined, Num(0), Str("")}

\* The truthy values that are neither a string nor record a: a non-zero
\* number, an object other than the record.
BadValues(a) ==
  {v \in ReturnValues : (v.t = "number" /\ v.n # 0) \/ (v.t = "object" /\ v.n # a)}

\* What the handlers of call c left in record.state: the last value one of
\* them assigned, or the state the record had when step was called.
LeftByHandlers(c) ==
  IF calls[c].hset = <<>> THEN calls[c].pre.state ELSE calls[c].hset[1]

\* C1: a step on a record with done = true resolves with the identical
\* record, changes none of its fields (history, updated and state among
\* them) and invokes neither a state handler nor the catch handler,
\* whatever the record's state.
C1_DoneShortCircuit ==
  \A c \in OnRecord :
    WasDone(c) =>
      /\ calls[c].pc = "resolved"
      /\ calls[c].out = Ref(calls[c].state)
      /\ calls[c].inv = <<>>
      /\ Post(c) = calls[c].pre

\* C1's case: a done record whose state has no entry in the handler table
\* and that has been through a step before was stepped again.
C1_Witness ==
  \E c \in OnRecord :
    /\ WasDone(c)
    /\ calls[c].pre.state \notin DOMAIN handlers
    /\ HistoryOf(calls[c].pre) # <<>>
    /\ calls[c].pc = "resolved"

\* C2: a step on a non-done record whose state has no registered state
\* handler rejects with the invalid-transition error and leaves history and
\* updated unchanged.
C2_InvalidStateRejects ==
  \A c \in OnRecord :
    (~WasDone(c) /\ calls[c].pre.state \notin StateKeys) =>
      /\ calls[c].pc = "rejected"
      /\ calls[c].out = AssertionError(MsgInvalid)
      /\ SameField(Post(c), calls[c].pre, "history")
      /\ SameField(Post(c), calls[c].pre, "updated")

\* C3: a step on a non-done record whose state names no state handler
\* invokes neither the catch handler (user-supplied or default) nor any
\* state handler, and its error reaches the caller.
C3_InvalidStateNotCaught ==
  \A c \in OnRecord :
    (~WasDone(c) /\ calls[c].pre.state \notin StateKeys) =>
      /\ calls[c].inv = <<>>
      /\ calls[c].pc = "rejected"

\* C4: after a successful step on a non-done record, history is the
\* snapshot {state, updated} of the record as it was before the step,
\* prepended to the history it had before the step (empty if absent): one
\* entry more, the earlier entries in their order.
C4_ArchivePrepends ==
  \A c \in OnRecord :
    (calls[c].pc = "resolved" /\ ~WasDone(c)) =>
      LET pre == calls[c].pre
          old == IF "history" \in DOMAIN pre THEN pre.history ELSE <<>>
      IN /\ "history" \in DOMAIN Post(c)
         /\ Len(Post(c).history) = Len(old) + 1
         /\ Post(c).history[1].state = pre.state
         /\ SameField(Post(c).history[1], pre, "updated")
         /\ DOMAIN Post(c).history[1] \subseteq {"state", "updated"}
         /\ \A i \in 1..Len(old) : Post(c).history[i + 1] = old[i]

\* C4's case: a step on a non-done record that already had a history
\* resolved.
C4_Witness ==
  \E c \in OnRecord :
    /\ calls[c].pc = "resolved"
    /\ ~WasDone(c)
    /\ HistoryOf(calls[c].pre) # <<>>

\* C5: if the state handler returns a non-empty string S, the step resolves
\* with record.state = S, whether or not the handler also assigned
\* record.state and whether or not S names a handler.
C5_StringTransition ==
  \A c \in Settled :
    (/\ calls[c].returned
     /\ calls[c].thrown = <<>>
     /\ calls[c].transition.t = "string"
     /\ calls[c].transition.s # "") =>
      /\ calls[c].pc = "resolved"
      /\ Post(c).state = calls[c].transition.s

\* C5's case: the handler assigned record.state one name and returned
\* another, one that names no handler.
C5_Witness ==
  \E c \in Settled :
    /\ calls[c].returned
    /\ calls[c].thrown = <<>>
    /\ calls[c].transition.t = "string"
    /\ calls[c].transition.s \notin DOMAIN handlers \cup {""}
    /\ calls[c].hset # <<>>
    /\ calls[c].hset[1] # calls[c].transition.s

\* C6: if a handler returns the very record it was passed, the step
\* resolves and record.state is what the handlers left in it (the state
\* before the step if none assigned it), while the archive and the
\* timestamp update of the step have taken place.
C6_RecordReturned ==
  \A c \in Settled :
    (calls[c].returned /\ calls[c].transition = Ref(calls[c].state)) =>
      /\ calls[c].pc = "resolved"
      /\ Post(c).state = LeftByHandlers(c)
      /\ Len(Post(c).history) = Len(HistoryOf(calls[c].pre)) + 1
      /\ Post(c).history[1].state = calls[c].pre.state
      /\ SameField(Post(c).history[1], calls[c].pre, "updated")
      /\ Post(c).updated = calls[c].now

\* C6's case: the handler assigned record.state a new name and returned
\* the record.
C6_Witness ==
  \E c \in Settled :
    /\ calls[c].returned
    /\ calls[c].transition = Ref(calls[c].state)
    /\ calls[c].hset # <<>>
    /\ calls[c].hset[1] # calls[c].pre.state

\* C7: if a handler returns undefined or another falsy value (0, the empty
\* string), the step resolves and record.state is what the handlers left
\* in it: the state before the step unless a handler assigned it.
C7_FalsyReturn ==
  \A c \in Settled :
    (calls[c].returned /\ calls[c].transition \in FalsyValues) =>
      /\ calls[c].pc = "resolved"
      /\ Post(c).state = LeftByHandlers(c)

\* C7's case: the handler returned the empty string without assigning
\* record.state.
C7_Witness ==
  \E c \in Settled :
    /\ calls[c].returned
    /\ calls[c].transition = Str("")
    /\ calls[c].hset = <<>>
    /\ Post(c).state = calls[c].pre.state

\* C8 as stated: if the state handler of a registered state throws and the
\* user-supplied catch handler returns a string E, the step resolves with
\* record.state = E, the catch handler having been invoked exactly once,
\* with that error, and the state handler not again.
C8_CatchReturnsAnyString ==
  \A c \in Settled :
    (/\ calls[c].pre.state \in StateKeys
     /\ calls[c].thrown # <<>>
     /\ handlers[CatchKey] = "user") =>
      /\ calls[c].inv = <<Invocation(calls[c].pre.state, "state", Ref(calls[c].state)),
                          Invocation(CatchKey, "catch", calls[c].thrown[1])>>
      /\ (calls[c].returned /\ calls[c].transition.t = "string") =>
           /\ calls[c].pc = "resolved"
           /\ Post(c).state = calls[c].transition.s

\* C8, amended: the same for a non-empty string E.
C8_CatchReturnsString ==
  \A c \in Settled :
    (/\ calls[c].pre.state \in StateKeys
     /\ calls[c].thrown # <<>>
     /\ handlers[CatchKey] = "user") =>
      /\ calls[c].inv = <<Invocation(calls[c].pre.state, "state", Ref(calls[c].state)),
                          Invocation(CatchKey, "catch", calls[c].thrown[1])>>
      /\ (/\ calls[c].returned
          /\ calls[c].transition.t = "string"
          /\ calls[c].transition.s # "") =>
           /\ calls[c].pc = "resolved"
           /\ Post(c).state = calls[c].transition.s

\* C8's case: the handler of a registered state threw, and the
\* user-supplied catch handler returned a state name other than the one
\* the record was in.
C8_Witness ==
  \E c \in Settled :
    /\ calls[c].pre.state \in StateKeys
    /\ calls[c].thrown # <<>>
    /\ handlers[CatchKey] = "user"
    /\ calls[c].returned
    /\ calls[c].transition.t = "string"
    /\ calls[c].transition.s \notin {"", calls[c].pre.state}
    /\ calls[c].pc = "resolved"

\* C9: if the caller registered no catch handler and the state handler
\* throws e, the step rejects with that same e.
C9_DefaultCatchRethrows ==
  \A c \in Settled :
    (calls[c].thrown # <<>> /\ handlers[CatchKey] = "default") =>
      /\ calls[c].pc = "rejected"
      /\ calls[c].out = calls[c].thrown[1]

\* C9's case: without a user-supplied catch handler, the handler of a
\* registered state threw an error and the step rejected.
C9_Witness ==
  \E c \in Settled :
    /\ calls[c].pre.state \in StateKeys
    /\ calls[c].thrown # <<>>
    /\ calls[c].thrown[1] \in UserErrors
    /\ handlers[CatchKey] = "default"
    /\ calls[c].pc = "rejected"

\* C10: if the value returned by the state handler or by the catch handler
\* is truthy and neither a string nor the record itself, the step rejects
\* with the bad-return-type error and the engine does not assign
\* record.state: it is what the handlers left in it.
C10_BadReturnType ==
  \A c \in Settled :
    (calls[c].returned /\ calls[c].transition \in BadValues(calls[c].state)) =>
      /\ calls[c].pc = "rejected"
      /\ calls[c].out = AssertionError(MsgBadReturn)
      /\ Post(c).state = LeftByHandlers(c)

\* C10's case: the catch handler returned an object that is not the
\* record.
C10_Witness ==
  \E c \in Settled :
    /\ calls[c].returned
    /\ calls[c].thrown # <<>>
    /\ calls[c].transition = Ref(NoRecord)
    /\ calls[c].pc = "rejected"

\* The state a record had when it was first stepped (or has, if it has not
\* been archived yet): that of its oldest snapshot.
Origin(r) ==
  IF HistoryOf(r) = <<>> THEN r.state ELSE r.history[Len(r.history)].state

\* C14: the catch handler is invoked only in response to an error thrown
\* by a state handler in the same step, never as the handler of
\* record.state: every invocation of the catch entry is in the catch role,
\* after the state handler threw, with the error it threw.
C14_CatchNeverDispatched ==
  \A c \in Invoked :
    \A i \in 1..Len(calls[c].inv) :
      calls[c].inv[i].fn = CatchKey =>
        /\ calls[c].inv[i].role = "catch"
        /\ i > 1
        /\ calls[c].thrown # <<>>
        /\ calls[c].inv[i].arg = calls[c].thrown[1]

\* C15 as stated: in a record that started in a state with a state
\* handler, record.state names a state handler (a key of the table other
\* than catch) after every sequence of step calls.
C15_StateAlwaysRegistered ==
  \A a \in Records :
    (Origin(rec[a]) \in StateKeys /\ \A c \in Calls : Pending(c) => calls[c].state # a)
      => rec[a].state \in StateKeys

\* C15, amended: in a record that started in a state with a state handler,
\* record.state is always a non-empty string (handlers assigning it only
\* such), though not always the name of a handler; and a step whose state
\* handler threw leaves the catch key in record.state only if a handler
\* left it there or the catch handler returned it.
C15_StateNonEmpty ==
  /\ \A a \in Records : Origin(rec[a]) \in StateKeys => rec[a].state # ""
  /\ \A c \in Settled :
       (calls[c].thrown # <<>> /\ Post(c).state = CatchKey) =>
         \/ LeftByHandlers(c) = CatchKey
         \/ calls[c].returned /\ calls[c].transition = Str(CatchKey)

\* C15's case: a record that started in a registered state was routed
\* through the catch handler and is now in a state that names no handler.
C15_Witness ==
  \E c \in Settled :
    /\ Origin(Post(c)) \in StateKeys
    /\ calls[c].thrown # <<>>
    /\ calls[c].pc = "resolved"
    /\ Post(c).state \notin DOMAIN handlers

\* C16: the engine never writes done or a caller-defined field.  In every
\* step of the model (the synchronous part of step with its short-circuit
\* and its two asserts, a handler returning and lines 28-34 running, the
\* try block catching, the catch handler's error leaving step, the caller
\* awaiting), a record's done changes only in a handler's assignment to
\* record.done, and its foo only in a handler's assignment to record.foo.
C16_EngineLeavesFields ==
  [][\A a \in Records :
       /\ ~SameField(rec[a], rec'[a], "done") =>
            \E c \in Calls, d \in BOOLEAN : HandlerSetsDone(c, d)
       /\ ~SameField(rec[a], rec'[a], "foo") =>
            \E c \in Calls, x \in ExtraValues : HandlerSetsExtra(c, x)]_vars

\* A step on a record with the extra field was rejected for a bad return
\* type after a handler had changed foo, and another resolved with a new
\* state that has no handler.
C16_Witness ==
  \E c \in Settled :
    /\ "foo" \in DOMAIN Post(c)
    /\ calls[c].returned
    /\ \/ calls[c].pc = "rejected" /\ Post(c).foo # calls[c].pre.foo
       \/ /\ calls[c].pc = "resolved"
          /\ Post(c).state # calls[c].pre.state
          /\ Post(c).state \notin DOMAIN handlers

\* The record was created by State(): it has a timestamp, and so has
\* every snapshot of it (a record written by hand as {state: s} has none
\* until it is stepped, and its oldest snapshot never has one).
Born(r) ==
  /\ "updated" \in DOMAIN r
  /\ \A i \in 1..Len(HistoryOf(r)) : "updated" \in DOMAIN r.history[i]

\* C19: timestamp ordering.  In a record created by State() and stepped
\* any number of times, updated is at least the timestamp of the newest
\* snapshot and the timestamps of history do not increase from the newest
\* snapshot to the oldest; the newest snapshot carries the updated value
\* the record had when the latest step began (the one written by the step
\* before it, or by State()), and updated is the time the latest step read.
C19_TimestampOrder ==
  \A a \in Records :
    Born(rec[a]) =>
      LET h == HistoryOf(rec[a])
      IN /\ h # <<>> => rec[a].updated >= h[1].updated
         /\ \A i \in 1..(Len(h) - 1) : h[i].updated >= h[i + 1].updated
         /\ \A c \in Invoked :
              calls[c].state = a =>
                /\ h[1].updated = calls[c].pre.updated
                /\ rec[a].updated = calls[c].now

\* A record created by State() was stepped twice, the clock advancing
\* before the first step: two snapshots with different timestamps.
C19_Witness ==
  \E a \in Records :
    /\ Born(rec[a])
    /\ Len(HistoryOf(rec[a])) = 2
    /\ rec[a].history[1].updated > rec[a].history[2].updated

----------------------------------------------------------------------------
(* Properties of the driving loop (SpecRun). *)

\* The calls of the loop that have been awaited.
Logged == {c \in Calls : calls[c].pc = "awaited"}

\* The number of steps the loop has completed.
StepsDone == Cardinality(Logged)

\* The state names of the snapshots of h, in order.
StatesOf(h) == [i \in 1..Len(h) |-> h[i].state]

\* The invocations of the catch handler over the whole run.
CatchInvocations ==
  {<<c, i>> \in Calls \X (1..2) :
     /\ calls[c].pc # "idle"
     /\ i <= Len(calls[c].inv)
     /\ calls[c].inv[i].role = "catch"}

\* C11 as stated: with the README's table (Start returns 'Middle', Middle
\* returns 'End', End sets done), after the third step on a fresh State()
\* record state = 'End', done = true and history has length 2: a snapshot
\* of 'Middle', then one of 'Start'.
C11_ThreeStepsHistoryOfTwo ==
  (handlers = Steps(TableReadme) /\ StepsDone = 3) =>
    /\ rec[1].state = "End"
    /\ rec[1].done = TRUE
    /\ StatesOf(rec[1].history) = <<"Middle", "Start">>

\* C11, amended: after the third step state = 'End', done = true and
\* history has length 3: snapshots of 'End', 'Middle' and 'Start', most
\* recent first.
C11_ThreeSteps ==
  (handlers = Steps(TableReadme) /\ StepsDone = 3) =>
    /\ rec[1].state = "End"
    /\ rec[1].done = TRUE
    /\ StatesOf(rec[1].history) = <<"End", "Middle", "Start">>

\* C11's case: the third step of the loop under the README's table has
\* been awaited.
C11_Witness ==
  /\ handlers = Steps(TableReadme)
  /\ StepsDone = 3
  /\ \A c \in Logged : calls[c].settled = "resolved"

\* The loop under the test's table has stopped as the test expects.
RunFinished ==
  /\ \A c \in Calls : calls[c].pc \in {"idle", "awaited"}
  /\ rec[1].done = TRUE
  /\ rec[1].state = "End"
  /\ Logged = 1..4
  /\ [c \in 1..4 |-> calls[c].pre.state] = <<"Start", "Middle", "Error", "End">>
  /\ \A c \in Logged : calls[c].settled = "resolved"
  /\ Cardinality(CatchInvocations) = 1
  /\ calls[3].inv = <<Invocation("Error", "state", Ref(1)),
                       Invocation(CatchKey, "catch", Err("error"))>>

\* C12: with the test's table the driving loop on a fresh State() record
\* eventually stops, with state = 'End' and done = true, the record having
\* been stepped from Start, Middle, Error and End in that order and the
\* catch handler having been invoked exactly once.
C12_LoopTerminates == <>[](handlers = Steps(TableTest) => RunFinished)

\* C12's case: the loop of the test has stopped.
C12_Witness == handlers = Steps(TableTest) /\ RunFinished

----------------------------------------------------------------------------
(* Properties of the constructor (SpecState). *)

\* The calls of State that have returned.
Made == {c \in Calls : calls[c].pc = "made"}

\* C13: State returns a new record that has every field of the caller's
\* object with the caller's value (state, done, history and updated
\* included), every default field the caller omitted with its default
\* (state = 'Start', done = false, history empty, updated = the current
\* time), and no other field; without an argument, exactly the defaults.
C13_StateOverlay ==
  \A c \in Made :
    LET o == calls[c].arg
        r == rec[calls[c].state]
    IN /\ DOMAIN r = DOMAIN o \cup {"state", "done", "history", "updated"}
       /\ \A f \in DOMAIN o : r[f] = o[f]
       /\ "state" \notin DOMAIN o => r.state = "Start"
       /\ "done" \notin DOMAIN o => r.done = FALSE
       /\ "history" \notin DOMAIN o => r.history = <<>>
       /\ "updated" \notin DOMAIN o => r.updated = calls[c].now
       /\ \A d \in Made \ {c} : calls[d].state # calls[c].state

\* C13's case: State was called without a field, and again, later, with
\* state, done and a field of the caller's own.
C13_Witness ==
  \E c, d \in Made :
    /\ DOMAIN calls[c].arg = {}
    /\ DOMAIN calls[d].arg = {"state", "done", "foo"}
    /\ calls[d].now > calls[c].now

----------------------------------------------------------------------------
(* Properties of interleaved loops on two records (SpecPair). *)

\* No call is in flight on record a.
NoFlight(a) == \A c \in Calls : calls[c].pc # "idle" => calls[c].state # a

\* A record without its timestamps: state, done and the states of history.
Shape(r) == [state |-> r.state, done |-> r.done, history |-> StatesOf(r.history)]

\* One step of the loop on record a alone, at time 0: the record after the
\* handler of its state (and the catch handler, if that one throws) has run
\* and the step has settled.
SoloStep(a, state) ==
  LET s1 == Assign(archive(state), "updated", 0)
      b == handlers[state.state]
      k == IF Scripts[b].throws THEN handlers[CatchKey] ELSE b
      s2 == IF k \in DOMAIN Scripts /\ Scripts[k].done
              THEN Assign(s1, "done", TRUE) ELSE s1
  IN IF k \in DOMAIN Scripts /\ ~Scripts[k].throws
       THEN applyTransition(a, s2, Scripts[k].ret).state
       ELSE s2

\* Record a after n iterations of the loop run on it alone from state.
RECURSIVE Solo(_, _, _)
Solo(a, state, n) ==
  IF n = 0 THEN state ELSE Solo(a, SoloStep(a, state), n - 1)

\* The record the loop on a started from: State({state: k}) for the oldest
\* state k of the record.
Started(a) == State([state |-> Origin(rec[a])], 0)

\* C17: steps on distinct records do not interfere.  A step of a call on
\* one record (its synchronous part, its handlers' assignments, its
\* settling, its being awaited) leaves every other record as it is, state,
\* done, history and updated included; and whenever no call is in flight
\* on a record that has been through n steps, its state, its done and the
\* states of its history are what n steps of the loop on it alone produce.
C17_NoInterference ==
  /\ [][/\ \A c \in Calls :
            calls'[c] # calls[c] =>
              \A a \in Records :
                (calls'[c].pc = "idle" \/ calls'[c].state # a) => rec'[a] = rec[a]
        /\ calls' = calls =>
            \A a \in Records :
              rec'[a] # rec[a] =>
                /\ \E c \in Calls : Pending(c) /\ calls[c].state = a
                /\ \A b \in Records \ {a} : rec'[b] = rec[b]]_vars
  /\ [](\A a \in Records :
          NoFlight(a) =>
            Shape(rec[a]) = Shape(Solo(a, Started(a), Len(rec[a].history))))

\* Both loops are under way: a step on one record has resolved with a new
\* state while a step on the other record, not its first, is pending.
C17_Witness ==
  \E c, d \in Invoked :
    /\ calls[c].pc = "resolved"
    /\ Pending(d)
    /\ calls[c].state # calls[d].state
    /\ Post(c).state # calls[c].pre.state
    /\ Len(Post(d).history) >= 2

----------------------------------------------------------------------------
(* Properties of retries (SpecRetry). *)

\* The tries that rejected after the state handler was invoked.
Failed ==
  {c \in Invoked :
     \/ calls[c].pc = "rejected"
     \/ calls[c].pc = "awaited" /\ calls[c].settled = "rejected"}

\* The tries issued so far.
Tries == Cardinality({c \in Calls : calls[c].pc # "idle"})

\* The record as try c left it: as the next try found it, or as it is now.
After(c) ==
  IF c + 1 \in Calls /\ calls[c + 1].pc # "idle"
    THEN calls[c + 1].pre
    ELSE rec[calls[c].state]

\* C18: no rollback on a failed step.  A try that rejected after handler
\* invocation (bad return type, or an error leaving the catch handler, the
\* default one included) left the record with the snapshot it archived at
\* the head of history, with updated = the time it read, and with the state
\* it found; every try archived the state it found, so that history holds,
\* newest first, one snapshot per try, and after a failed try the retry
\* found, archived and invoked the handler of the same state again.
C18_NoRollback ==
  /\ \A c \in Failed :
       /\ After(c).history = <<Snapshot(calls[c].pre)>> \o HistoryOf(calls[c].pre)
       /\ After(c).updated = calls[c].now
       /\ After(c).state = calls[c].pre.state
  /\ \A c \in Invoked :
       /\ Len(rec[calls[c].state].history) >= Tries
       /\ rec[calls[c].state].history[Tries - c + 1] = Snapshot(calls[c].pre)
       /\ (c > 1 /\ c - 1 \in Failed) =>
            /\ calls[c].pre.state = calls[c - 1].pre.state
            /\ calls[c].inv[1] = calls[c - 1].inv[1]
            /\ Snapshot(calls[c].pre).state = Snapshot(calls[c - 1].pre).state

\* A first try failed on a bad return type and was retried; the retry
\* failed on an error that left the catch handler.
C18_Witness ==
  /\ {1, 2} \subseteq Failed
  /\ calls[1].returned
  /\ calls[1].transition \in BadValues(1)
  /\ ~calls[2].returned
  /\ calls[2].thrown # <<>>

----------------------------------------------------------------------------
(* Properties of overlapping calls (SpecOverlap). *)

\* Call c settles in this step; no call is pending after it.
SettlesLast(c) ==
  /\ Pending(c)
  /\ calls'[c].pc = "resolved"
  /\ \A d \in Calls : calls'[d].pc \in {"resolved", "rejected"}

\* The second call was issued on a record that was not done: it went past
\* both checks, found the state the first call found, archived it again
\* and invoked the same handler with the same record.
SecondCallRuns ==
  (calls[2].pc # "idle" /\ ~WasDone(2)) =>
    /\ 2 \in Invoked
    /\ calls[2].pre.state = calls[1].pre.state
    /\ calls[2].inv[1] = calls[1].inv[1]
    /\ calls[2].inv[1] = Invocation(calls[1].pre.state, "state", Ref(1))
    /\ rec[1].history =
         <<[state |-> calls[1].pre.state, updated |-> calls[1].now],
           Snapshot(calls[1].pre)>> \o HistoryOf(calls[1].pre)

\* C20 as stated: calls on one record are not mutually exclusive (the
\* second call runs as above), and when the last of the two calls has
\* resolved and the record has left the state both calls found, its state
\* is the value returned to the call that resolved last.
C20_LastResultWins ==
  /\ []SecondCallRuns
  /\ [][\A c \in Calls :
          (SettlesLast(c) /\ 2 \in Invoked
             /\ rec'[1].state # calls[1].pre.state) =>
            Str(rec'[1].state) = calls'[c].transition]_vars

\* C20, amended: the second call runs as above, and when the last of the
\* two calls resolves, the record's state is the value its handler
\* returned if that is a non-empty string; if the handler returned nothing,
\* another falsy value or the record, the state stays as the call that
\* resolved earlier left it.
C20_LastStringWins ==
  /\ []SecondCallRuns
  /\ [][\A c \in Calls :
          (SettlesLast(c) /\ 2 \in Invoked) =>
            LET v == calls'[c].transition
            IN IF v \in FalsyValues \/ v = Ref(1)
                 THEN rec'[1].state = rec[1].state
                 ELSE Str(rec'[1].state) = v]_vars

\* Both calls have resolved; the first returned a state name, the second,
\* issued while the first was pending, returned nothing: the record is in
\* the state the first call assigned, with two snapshots of the state both
\* calls found.
C20_Witness ==
  /\ {1, 2} \subseteq Settled
  /\ calls[1].pc = "resolved"
  /\ calls[2].pc = "resolved"
  /\ calls[1].transition = Str("End")
  /\ calls[2].returned
  /\ calls[2].transition = Undefined
  /\ rec[1].state = "End"
  /\ calls[2].pre.state = "Start"
  /\ Len(rec[1].history) = 2

====
